---------------------------- MODULE Spec2Model ----------------------------
(***************************************************************************)
(* A model of the native VNC session of AVNC (native-vnc.cpp, ClientEx.h,  *)
(* Cursor.h): the framebuffer that the processing thread reallocates under *)
(* fbMutex while reader threads upload it, the message loop                *)
(* nativeProcessServerMessage, the interrupt pipe of ClientEx, the cursor  *)
(* of Cursor.h, and the session's life from nativeClientCreate through     *)
(* nativeInit to nativeCleanup.                                            *)
(*                                                                         *)
(* Threads: one processing thread (pc), reader threads (rpc), and the host *)
(* thread that runs nativeCleanup (cpc) and signals the interrupt pipe.    *)
(***************************************************************************)
EXTENDS Integers, Sequences, FiniteSets

\* ------------------------------------------------------------------ bounds

\* Framebuffer widths and heights the server may announce: 0..MaxDim.
MaxDim == 2

\* Stand-in for the platform's SIZE_MAX, scaled to the dimensions above.
SizeMax == 15

\* NewFBSize rectangles the server sends during one session.
MaxReallocs == 2

\* Capacity of the interrupt pipe in bytes.
PipeCap == 2

\* Longest timeout, in clock ticks, a caller passes to the message loop.
MaxTimeout == 2

\* Cursor shapes the server may send are at most MaxCursorDim wide and high
\* and have at most MaxCursorPixels pixels.
MaxCursorDim == 2

MaxCursorPixels == 4

\* Ports a host passes to nativeInit: -1 .. MaxPort, and some above.
MaxPort == 102

\* errno values handed to errnoToStr: -(1000 + MaxGaiError) .. MaxErrno.
MaxErrno == 115

MaxGaiError == 3

\* ------------------------------------------------------- program constants

\* rfbGetClient(8, 3, 4): 8 bits per sample, 4 bytes per pixel.
BitsPerPixel == 32

DefaultCursorWidth == 10

DefaultCursorHeight == 16

DefaultCursorXHot == 1

DefaultCursorYHot == 1

\* The pixels of the default cursor, one 32-bit value per pixel.
DefaultCursorBuffer ==
    << 0, 0, 0, 0, 0, 0, 0, 0, 0, 0,
       0, 16777215, 0, 0, 0, 0, 0, 0, 0, 0,
       0, 16777215, 16777215, 0, 0, 0, 0, 0, 0, 0,
       0, 16777215, 16777215, 16777215, 0, 0, 0, 0, 0, 0,
       0, 16777215, 16777215, 16777215, 16777215, 0, 0, 0, 0, 0,
       0, 16777215, 16777215, 16777215, 16777215, 16777215, 0, 0, 0, 0,
       0, 16777215, 16777215, 16777215, 16777215, 16777215, 16777215, 0, 0, 0,
       0, 16777215, 16777215, 16777215, 16777215, 16777215, 16777215, 16777215, 0, 0,
       0, 16777215, 16777215, 16777215, 16777215, 16777215, 16777215, 16777215, 16777215, 0,
       0, 16777215, 16777215, 16777215, 16777215, 16777215, 0, 0, 0, 0,
       0, 16777215, 16777215, 0, 16777215, 16777215, 0, 0, 0, 0,
       0, 16777215, 0, 0, 0, 16777215, 16777215, 0, 0, 0,
       0, 0, 0, 0, 0, 16777215, 16777215, 0, 0, 0,
       0, 0, 0, 0, 0, 0, 16777215, 16777215, 0, 0,
       0, 0, 0, 0, 0, 0, 16777215, 16777215, 0, 0,
       0, 0, 0, 0, 0, 0, 0, 0, 0, 0 >>

\* The mask of the default cursor, one byte per pixel.
DefaultCursorMask ==
    << 1, 1, 0, 0, 0, 0, 0, 0, 0, 0,
       1, 1, 1, 0, 0, 0, 0, 0, 0, 0,
       1, 1, 1, 1, 0, 0, 0, 0, 0, 0,
       1, 1, 1, 1, 1, 0, 0, 0, 0, 0,
       1, 1, 1, 1, 1, 1, 0, 0, 0, 0,
       1, 1, 1, 1, 1, 1, 1, 0, 0, 0,
       1, 1, 1, 1, 1, 1, 1, 1, 0, 0,
       1, 1, 1, 1, 1, 1, 1, 1, 1, 0,
       1, 1, 1, 1, 1, 1, 1, 1, 1, 1,
       1, 1, 1, 1, 1, 1, 1, 1, 1, 1,
       1, 1, 1, 1, 1, 1, 1, 0, 0, 0,
       1, 1, 1, 0, 1, 1, 1, 1, 0, 0,
       1, 1, 0, 0, 1, 1, 1, 1, 0, 0,
       0, 0, 0, 0, 0, 1, 1, 1, 1, 0,
       0, 0, 0, 0, 0, 1, 1, 1, 1, 0,
       0, 0, 0, 0, 0, 0, 1, 1, 0, 0 >>

\* The errno values errnoToStr and the callbacks name (Linux numbering).
EINTR == 4

EIO == 5

EAGAIN == 11

ENOMEM == 12

EACCES == 13

EPROTO == 71

ENETDOWN == 100

ENETUNREACH == 101

ENETRESET == 102

ECONNABORTED == 103

ECONNRESET == 104

ETIMEDOUT == 110

ECONNREFUSED == 111

EHOSTDOWN == 112

EHOSTUNREACH == 113

\* rfbCredentialTypeX509 and rfbCredentialTypeUser of the engine's header.
rfbCredentialTypeX509 == 1

rfbCredentialTypeUser == 2

\* The offset of VNC display numbers.
DisplayPortBase == 5900

\* Ports below this are display numbers.
DisplayPortLimit == 100

\* getaddrinfo errors are reported below this value.
GaiErrnoBase == 1000

\* ------------------------------------------------------------------- state

VARIABLES
    heap,              \* malloc'ed blocks: <<[w, h, size, fill, live]>>
    frameBuffer,       \* client->frameBuffer: 0 (nullptr) or an index of heap
    fbRealWidth,       \* published under fbMutex
    fbRealHeight,      \* published under fbMutex
    width,             \* client->width, written by the protocol engine
    height,            \* client->height, written by the protocol engine
    fbMutex,           \* "none" or the thread that holds the lock
    errno,             \* the calling thread's errno
    pc,                \* position of the processing thread
    waitRes,           \* value WaitForMessage returned
    waitWhy,           \* why the wait ended
    decodeRounds,      \* HandleRFBServerMessage calls of the current call
    decodeOk,          \* value HandleRFBServerMessage returned
    result,            \* value nativeProcessServerMessage returned
    timeout,           \* u_sec_timeout of the current call, in ticks
    elapsed,           \* ticks the current wait has been blocked
    sockData,          \* the server socket is readable
    interruptReadFd,   \* ClientEx.interruptReadFd
    interruptWriteFd,  \* ClientEx.interruptWriteFd
    pipeBytes,         \* bytes in the interrupt pipe
    rpc,               \* position of each reader thread
    rbuf,              \* the frameBuffer pointer a reader read
    rw,                \* the fbRealWidth a reader read
    rh,                \* the fbRealHeight a reader read
    cpc,               \* position of the host thread inside nativeCleanup
    lastSizeEvent,     \* arguments of the last cbFramebufferSizeChanged
    lastRealloc,       \* how the last onMallocFrameBuffer ended
    nRealloc,          \* NewFBSize rectangles processed so far
    signalled,         \* a byte was written to the pipe since the last wake
    lastDrain,         \* bytes the last wake read from the pipe
    seen,              \* <<wait outcome class, result>> of the calls so far
    state,             \* the session's lifecycle state
    connected,         \* nativeInit has returned JNI_TRUE
    port,              \* the port the host passes to nativeInit
    serverPort,        \* client->serverPort
    authSchemes,       \* schemes set by SetClientAuthSchemes (<<>>: all)
    useRemoteCursor,   \* client->appData.useRemoteCursor
    desktopName,       \* client->desktopName: <<>> (nullptr) or <<name>>
    tlsSession,        \* client->tlsSession is not nullptr
    credentialType,    \* the kind the engine asks onGetCredential for
    credential,        \* what onGetCredential returned: <<>> or <<cred>>
    listenerCalls,     \* calls of cbGetCredential for the current request
    listenerAnswer,    \* what cbGetCredential returned: <<>> or <<cred>>
    info,              \* what the connection-info getters returned
    errStr,            \* what nativeGetLastErrorStr returned
    cursor,            \* ClientEx.cursor and the Cursor it points to
    shape,             \* arguments of the cursor update in progress
    lastUpdate,        \* how the last updateCursor ended
    csnap,             \* per reader: the cursor its snapshot has read
    held               \* resources acquired and not yet released

fbVars == <<heap, frameBuffer, fbRealWidth, fbRealHeight, width, height,
            fbMutex, lastSizeEvent, lastRealloc, nRealloc>>
procVars == <<waitRes, waitWhy, decodeRounds, decodeOk, result, timeout,
              elapsed, seen>>
chanVars == <<sockData, interruptReadFd, interruptWriteFd, pipeBytes,
              signalled, lastDrain>>
readerVars == <<rpc, rbuf, rw, rh>>
lifeVars == <<state, connected, port, serverPort, authSchemes, useRemoteCursor,
              desktopName, tlsSession, info, errStr>>
credVars == <<credentialType, credential, listenerCalls, listenerAnswer>>
cursorVars == <<cursor, shape, lastUpdate, csnap>>
sessVars == <<lifeVars, credVars, cursorVars, held>>
vars == <<fbVars, procVars, chanVars, readerVars, errno, pc, cpc, sessVars>>

\* Reader threads (the render thread and one more).
Readers == {"r1", "r2"}

Dims == 0 .. MaxDim

\* ----------------------------------------------------------------- helpers

\* allocSize of onMallocFrameBuffer: a 64-bit product of 16-bit dimensions
\* and the pixel size, which cannot wrap.
AllocSize(w, h) == (w * h * BitsPerPixel) \div 8

\* A block as malloc returns it: contents unspecified, never freed.
NewBlock(w, h) ==
    [w |-> w, h |-> h, size |-> AllocSize(w, h), fill |-> "garbage",
     live |-> TRUE, frees |-> 0]

\* free(p): the block is dead and its contents are no longer defined.
Free(hp, p) ==
    [hp EXCEPT ![p].live = FALSE, ![p].fill = "garbage", ![p].frees = @ + 1]

\* memset(p, 0, size)
Memset0(hp, p) == [hp EXCEPT ![p].fill = "zero"]

\* Mutant: the read end is recorded as absent although pipe2 succeeded.
PipeFds_NoRead(r) == IF r = 0 THEN <<-1, 4>> ELSE <<-1, -1>>

\* pipe2(interruptPipe, O_NONBLOCK) of assignClientExtension: r == 0 gives
\* the two descriptors, anything else records both as absent.
PipeFds(r) == IF r = 0 THEN <<3, 4>> ELSE <<-1, -1>>

\* ------------------------------------------------------------------ cursor

\* A cursor buffer: cursor->buffer is nullptr, or points to pixels of four
\* bytes each (red, green, blue, alpha).
NullBuffer == [present |-> FALSE, default |-> FALSE, px |-> <<>>]

\* No Cursor at all: ClientEx.cursor is nullptr.
NullCursor ==
    [alloc |-> FALSE, buffer |-> NullBuffer, width |-> 0, height |-> 0,
     xHot |-> 0, yHot |-> 0]

\* memset(cursor, 0, sizeof(Cursor)) of newCursor.
ZeroCursor == [NullCursor EXCEPT !.alloc = TRUE]

\* The four bytes of a 32-bit pixel as they lie in memory (little endian):
\* reinterpret_cast<const uint8_t *>(DefaultCursorBuffer).
PixelOf(u) ==
    << u % 256, (u \div 256) % 256, (u \div 65536) % 256, (u \div 16777216) % 256 >>

DefaultCursorPixels ==
    [i \in 1 .. Len(DefaultCursorBuffer) |-> PixelOf(DefaultCursorBuffer[i])]

\* Mutant: the alpha byte of the source pixel is kept.
AlphaOf_Source(m, a) == a

\* The alpha byte updateCursor stores for a pixel with mask byte m, whatever
\* alpha a the source pixel has.
AlphaOf(m, a) == IF m # 0 THEN 255 ELSE 0

\* memcpy(cursorBuffer, buffer, size), then for every pixel
\* cursorBuffer[i * 4 + 3] = mask[i] ? 0xFF : 0x00.
CopyPixels(buffer, mask, n) ==
    [i \in 1 .. n |-> << buffer[i][1], buffer[i][2], buffer[i][3],
                          AlphaOf(mask[i], buffer[i][4]) >>]

\* The pixels of the default cursor's buffer.
DefaultCursorImage ==
    CopyPixels(DefaultCursorPixels, DefaultCursorMask,
               DefaultCursorWidth * DefaultCursorHeight)

\* A pixel buffer holding the pixels px.  The state keeps the default image,
\* which every session starts with, by name and any other content pixel by
\* pixel; Pixels gives the content back.
Buffer(px) ==
    IF px = DefaultCursorImage
    THEN [present |-> TRUE, default |-> TRUE, px |-> <<>>]
    ELSE [present |-> TRUE, default |-> FALSE, px |-> px]

Pixels(b) == IF b.default THEN DefaultCursorImage ELSE b.px

\* updateCursor(cursor, buffer, mask, width, height, xHot, yHot), with ok
\* the outcome of its malloc: the old buffer is freed first; when malloc
\* fails the function returns at once; otherwise the source is copied, the
\* fields are set and the alpha bytes are rewritten from the mask.
updateCursor(c, buffer, mask, w, h, xHot, yHot, ok) ==
    IF ~ok
    THEN [c EXCEPT !.buffer = NullBuffer]
    ELSE [c EXCEPT
            !.buffer = Buffer(CopyPixels(buffer, mask, w * h)),
            !.width = w,
            !.height = h,
            !.xHot = xHot,
            !.yHot = yHot]

\* newCursor(): okc and okb are the outcomes of the two allocations, of the
\* Cursor and (inside updateCursor) of its buffer.
newCursor(okc, okb) ==
    IF ~okc
    THEN NullCursor
    ELSE updateCursor(ZeroCursor, DefaultCursorPixels, DefaultCursorMask,
                      DefaultCursorWidth, DefaultCursorHeight,
                      DefaultCursorXHot, DefaultCursorYHot, okb)

\* The shape a cursor update carries.
Shape(buffer, mask, w, h, xHot, yHot) ==
    [buffer |-> buffer, mask |-> mask, width |-> w, height |-> h,
     xHot |-> xHot, yHot |-> yHot]

NoShape == Shape(<<>>, <<>>, 0, 0, 0, 0)

\* Source pixels the server sends, with alpha bytes of their own.
SamplePixels == << <<1, 2, 3, 0>>, <<250, 128, 7, 255>>, <<0, 0, 0, 77>> >>

\* A source buffer of n pixels: the sample pixels in turn, from the s-th on.
SourceBuffer(n, s) ==
    [i \in 1 .. n |-> SamplePixels[((i + s) % Len(SamplePixels)) + 1]]

\* Every cursor shape within the bounds: any mask, any of the source
\* buffers, hotspot (0,0) or (1,1).
CursorShapes ==
    UNION { { Shape(SourceBuffer(d[1] * d[2], s), m, d[1], d[2], hot, hot) :
                s \in 0 .. Len(SamplePixels) - 1,
                m \in [1 .. d[1] * d[2] -> {0, 1}],
                hot \in {0, 1} } :
            d \in { e \in (0 .. MaxCursorDim) \X (0 .. MaxCursorDim) :
                      e[1] * e[2] <= MaxCursorPixels } }

\* --------------------------------------------------------------- resources

\* What a session acquires besides the framebuffer.
Resources ==
    {"managedClient", "ex", "cursor", "cursorBuffer", "interruptReadFd",
     "interruptWriteFd"}

Acquire(hd, r) == [hd EXCEPT ![r] = @ + 1]

Release(hd, r) == [hd EXCEPT ![r] = @ - 1]

\* free(p) and close(fd) of a resource that is there (free(nullptr) does
\* nothing).
ReleaseIf(hd, r, there) == IF there THEN Release(hd, r) ELSE hd

\* ------------------------------------------------------------------- Init

\* The session after nativeClientCreate: rfbGetClient zero-fills rfbClient,
\* the managed object is referenced, assignClientExtension creates the
\* interrupt pipe (pipe2 returns r) and newCursor installs the cursor (okb:
\* the allocation of its buffer succeeds).  p is the port the host is going
\* to pass to nativeInit, e the errno of the calling thread.
Created(r, okb, p, e) ==
    /\ heap = <<>>
    /\ frameBuffer = 0
    /\ fbRealWidth = 0
    /\ fbRealHeight = 0
    /\ width = 0
    /\ height = 0
    /\ fbMutex = "none"
    /\ errno = e
    /\ pc = "idle"
    /\ waitRes = 0
    /\ waitWhy = "none"
    /\ decodeRounds = 0
    /\ decodeOk = FALSE
    /\ result = "none"
    /\ timeout = 0
    /\ elapsed = 0
    /\ sockData = FALSE
    /\ interruptReadFd = PipeFds(r)[1]
    /\ interruptWriteFd = PipeFds(r)[2]
    /\ pipeBytes = 0
    /\ rpc = [x \in Readers |-> "idle"]
    /\ rbuf = [x \in Readers |-> 0]
    /\ rw = [x \in Readers |-> 0]
    /\ rh = [x \in Readers |-> 0]
    /\ cpc = "none"
    /\ lastSizeEvent = <<>>
    /\ lastRealloc = "none"
    /\ nRealloc = 0
    /\ signalled = FALSE
    /\ lastDrain = 0
    /\ seen = {}
    /\ state = "Created"
    /\ connected = FALSE
    /\ port = p
    /\ serverPort = 0
    /\ authSchemes = <<>>
    /\ useRemoteCursor = FALSE
    /\ desktopName = <<>>
    /\ tlsSession = FALSE
    /\ credentialType = 0
    /\ credential = <<>>
    /\ listenerCalls = 0
    /\ listenerAnswer = <<>>
    /\ info = <<>>
    /\ errStr = <<>>
    /\ cursor = newCursor(TRUE, okb)
    /\ shape = NoShape
    /\ lastUpdate = "none"
    /\ csnap = [x \in Readers |-> <<>>]
    /\ held = [x \in Resources |->
                 CASE x = "cursorBuffer" -> IF okb THEN 1 ELSE 0
                   [] x = "interruptReadFd" -> IF PipeFds(r)[1] > -1 THEN 1 ELSE 0
                   [] x = "interruptWriteFd" -> IF PipeFds(r)[2] > -1 THEN 1 ELSE 0
                   [] OTHER -> 1]

\* A session whose cursor was allocated in full; the pipe may have failed.
Init == \E r \in {0, -1} : Created(r, TRUE, 1, 0)

\* ------------------------------------------- onMallocFrameBuffer (callback)

\* Mutant: the size check never rejects a request.
SizeTooLarge_Never(sz) == FALSE

\* allocSize >= SIZE_MAX
SizeTooLarge(sz) == sz >= SizeMax

\* The size check: a request that is too large fails with EPROTO before the
\* lock is taken; anything else goes on to the locked section.
MallocSizeCheck ==
    /\ pc = "m_size"
    /\ IF SizeTooLarge(AllocSize(width, height))
       THEN /\ errno' = EPROTO
            /\ lastRealloc' = "eproto"
            /\ pc' = "m_false"
       ELSE /\ pc' = "m_lock"
            /\ UNCHANGED <<errno, lastRealloc>>
    /\ UNCHANGED <<heap, frameBuffer, fbRealWidth, fbRealHeight, width, height,
                   fbMutex, lastSizeEvent, nRealloc>>
    /\ UNCHANGED <<procVars, chanVars, readerVars, cpc>>
    /\ UNCHANGED sessVars

\* Mutant: the callback enters its critical section without the lock.
MallocLock_NoLock ==
    /\ pc = "m_lock"
    /\ pc' = "m_free"
    /\ UNCHANGED <<fbVars, procVars, chanVars, readerVars, errno, cpc>>
    /\ UNCHANGED sessVars

\* LOCK(client->fbMutex)
MallocLock ==
    /\ pc = "m_lock"
    /\ fbMutex = "none"
    /\ fbMutex' = "proc"
    /\ pc' = "m_free"
    /\ UNCHANGED <<heap, frameBuffer, fbRealWidth, fbRealHeight, width, height,
                   lastSizeEvent, lastRealloc, nRealloc>>
    /\ UNCHANGED <<procVars, chanVars, readerVars, errno, cpc>>
    /\ UNCHANGED sessVars

\* if (client->frameBuffer) free(client->frameBuffer);
MallocFree ==
    /\ pc = "m_free"
    /\ heap' = IF frameBuffer # 0 THEN Free(heap, frameBuffer) ELSE heap
    /\ pc' = "m_alloc"
    /\ UNCHANGED <<frameBuffer, fbRealWidth, fbRealHeight, width, height,
                   fbMutex, lastSizeEvent, lastRealloc, nRealloc>>
    /\ UNCHANGED <<procVars, chanVars, readerVars, errno, cpc>>
    /\ UNCHANGED sessVars

\* client->frameBuffer = malloc(allocSize): a fresh block, or nullptr when
\* the allocator has no memory (or, for a size of 0, chooses to).
MallocAlloc ==
    /\ pc = "m_alloc"
    /\ \/ /\ heap' = Append(heap, NewBlock(width, height))
          /\ frameBuffer' = Len(heap) + 1
       \/ /\ heap' = heap
          /\ frameBuffer' = 0
    /\ pc' = "m_publish"
    /\ UNCHANGED <<fbRealWidth, fbRealHeight, width, height, fbMutex,
                   lastSizeEvent, lastRealloc, nRealloc>>
    /\ UNCHANGED <<procVars, chanVars, readerVars, errno, cpc>>
    /\ UNCHANGED sessVars

\* Mutant: the requested dimensions are published even without a buffer.
Published_Stale(fb, w, h) == <<w, h>>

\* The dimensions the callback publishes: those of the new buffer, or 0 x 0
\* when there is none.
Published(fb, w, h) == IF fb # 0 THEN <<w, h>> ELSE <<0, 0>>

\* Mutant: the new buffer is not cleared.
Cleared_NoMemset(hp, fb) == hp

\* The contents of the heap after the publication: memset clears the new
\* buffer.
Cleared(hp, fb) == IF fb # 0 THEN Memset0(hp, fb) ELSE hp

\* if (client->frameBuffer) { fbRealWidth = width; fbRealHeight = height;
\* memset(...) } else { fbRealWidth = 0; fbRealHeight = 0; }
MallocPublish ==
    /\ pc = "m_publish"
    /\ fbRealWidth' = Published(frameBuffer, width, height)[1]
    /\ fbRealHeight' = Published(frameBuffer, width, height)[2]
    /\ heap' = Cleared(heap, frameBuffer)
    /\ lastRealloc' = IF frameBuffer # 0 THEN "ok" ELSE "enomem"
    /\ pc' = "m_unlock"
    /\ UNCHANGED <<frameBuffer, width, height, fbMutex, lastSizeEvent, nRealloc>>
    /\ UNCHANGED <<procVars, chanVars, readerVars, errno, cpc>>
    /\ UNCHANGED sessVars

\* Mutant: the callback leaves its critical section with the lock held.
MallocUnlock_KeepsLock ==
    /\ pc = "m_unlock"
    /\ pc' = "m_check"
    /\ UNCHANGED <<fbVars, procVars, chanVars, readerVars, errno, cpc>>
    /\ UNCHANGED sessVars

\* UNLOCK(client->fbMutex)
MallocUnlock ==
    /\ pc = "m_unlock"
    /\ fbMutex' = "none"
    /\ pc' = "m_check"
    /\ UNCHANGED <<heap, frameBuffer, fbRealWidth, fbRealHeight, width, height,
                   lastSizeEvent, lastRealloc, nRealloc>>
    /\ UNCHANGED <<procVars, chanVars, readerVars, errno, cpc>>
    /\ UNCHANGED sessVars

\* Mutant: the callback does not test the allocation before it notifies.
MallocCheck_NoFail ==
    /\ pc = "m_check"
    /\ pc' = "m_notify"
    /\ UNCHANGED <<fbVars, procVars, chanVars, readerVars, errno, cpc>>
    /\ UNCHANGED sessVars

\* if (client->frameBuffer == nullptr) { errno = ENOMEM; return FALSE; }
MallocCheck ==
    /\ pc = "m_check"
    /\ IF frameBuffer = 0
       THEN /\ errno' = ENOMEM
            /\ pc' = "m_false"
       ELSE /\ pc' = "m_notify"
            /\ UNCHANGED errno
    /\ UNCHANGED <<fbVars, procVars, chanVars, readerVars, cpc>>
    /\ UNCHANGED sessVars

\* cbFramebufferSizeChanged(client->width, client->height); return TRUE;
MallocNotify ==
    /\ pc = "m_notify"
    /\ lastSizeEvent' = <<width, height>>
    /\ pc' = "engine"
    /\ UNCHANGED <<heap, frameBuffer, fbRealWidth, fbRealHeight, width, height,
                   fbMutex, lastRealloc, nRealloc>>
    /\ UNCHANGED <<procVars, chanVars, readerVars, errno, cpc>>
    /\ UNCHANGED sessVars

\* cbFramebufferSizeChanged(client->width, client->height) with a listener
\* that takes a snapshot of the framebuffer before it returns: it calls
\* nativeUploadFrameTexture on the processing thread.
NotifySnapshot ==
    /\ pc = "m_notify"
    /\ lastSizeEvent' = <<width, height>>
    /\ pc' = "cb_lock"
    /\ UNCHANGED <<heap, frameBuffer, fbRealWidth, fbRealHeight, width, height,
                   fbMutex, lastRealloc, nRealloc>>
    /\ UNCHANGED <<procVars, chanVars, readerVars, errno, cpc>>
    /\ UNCHANGED sessVars

\* The listener's snapshot: LOCK(client->fbMutex).  The mutex is not
\* recursive: the processing thread waits for it like any other thread.
ListenerLock ==
    /\ pc = "cb_lock"
    /\ fbMutex = "none"
    /\ fbMutex' = "proc"
    /\ pc' = "cb_upload"
    /\ UNCHANGED <<heap, frameBuffer, fbRealWidth, fbRealHeight, width, height,
                   lastSizeEvent, lastRealloc, nRealloc>>
    /\ UNCHANGED <<procVars, chanVars, readerVars, errno, cpc>>
    /\ UNCHANGED sessVars

\* The listener's snapshot: if (client->frameBuffer) glTexImage2D(...).
ListenerUpload ==
    /\ pc = "cb_upload"
    /\ pc' = "cb_unlock"
    /\ UNCHANGED <<fbVars, procVars, chanVars, readerVars, errno, cpc>>
    /\ UNCHANGED sessVars

\* The listener's snapshot: UNLOCK(client->fbMutex); the size-changed
\* callback returns and onMallocFrameBuffer returns TRUE.
ListenerUnlock ==
    /\ pc = "cb_unlock"
    /\ fbMutex' = "none"
    /\ pc' = "engine"
    /\ UNCHANGED <<heap, frameBuffer, fbRealWidth, fbRealHeight, width, height,
                   lastSizeEvent, lastRealloc, nRealloc>>
    /\ UNCHANGED <<procVars, chanVars, readerVars, errno, cpc>>
    /\ UNCHANGED sessVars

\* The size-changed callback of a listener that takes a snapshot.
SnapshotInCallback ==
    \/ NotifySnapshot
    \/ ListenerLock
    \/ ListenerUpload
    \/ ListenerUnlock

onMallocFrameBuffer ==
    \/ MallocSizeCheck
    \/ MallocLock
    \/ MallocFree
    \/ MallocAlloc
    \/ MallocPublish
    \/ MallocUnlock
    \/ MallocCheck
    \/ MallocNotify

\* ------------------------------------------------ onFinishedFrameBufferUpdate

\* cbFinishedFrameBufferUpdate(); the decode round then ends with TRUE.
onFinishedFrameBufferUpdate ==
    /\ pc = "f_notify"
    /\ decodeOk' = TRUE
    /\ pc' = "p_ret"
    /\ UNCHANGED <<waitRes, waitWhy, decodeRounds, result, timeout, elapsed, seen>>
    /\ UNCHANGED <<fbVars, chanVars, readerVars, errno, cpc>>
    /\ UNCHANGED sessVars

\* ------------------------------------------- the protocol engine (external)

\* A NewFBSize rectangle: the engine stores the announced size in the client
\* and calls MallocFrameBuffer.
EngineNewFBSize ==
    /\ pc = "engine"
    /\ nRealloc < MaxReallocs
    /\ \E w \in Dims, h \in Dims :
          /\ width' = w
          /\ height' = h
    /\ nRealloc' = nRealloc + 1
    /\ pc' = "m_size"
    /\ UNCHANGED <<heap, frameBuffer, fbRealWidth, fbRealHeight, fbMutex,
                   lastSizeEvent, lastRealloc>>
    /\ UNCHANGED <<procVars, chanVars, readerVars, errno, cpc>>
    /\ UNCHANGED sessVars

\* A rectangle of pixels decoded into the framebuffer.
EngineUpdateRect ==
    /\ pc = "engine"
    /\ frameBuffer # 0
    /\ heap[frameBuffer].size > 0
    /\ heap[frameBuffer].fill # "pixels"
    /\ heap' = [heap EXCEPT ![frameBuffer].fill = "pixels"]
    /\ UNCHANGED <<frameBuffer, fbRealWidth, fbRealHeight, width, height,
                   fbMutex, lastSizeEvent, lastRealloc, nRealloc>>
    /\ UNCHANGED <<procVars, chanVars, readerVars, errno, pc, cpc>>
    /\ UNCHANGED sessVars

\* The update is complete: the engine calls FinishedFrameBufferUpdate.
EngineFinish ==
    /\ pc = "engine"
    /\ pc' = "f_notify"
    /\ UNCHANGED <<fbVars, procVars, chanVars, readerVars, errno, cpc>>
    /\ UNCHANGED sessVars

\* MallocFrameBuffer returned FALSE: the decode round ends with FALSE.
EngineCallbackFailed ==
    /\ pc = "m_false"
    /\ decodeOk' = FALSE
    /\ pc' = "p_ret"
    /\ UNCHANGED <<waitRes, waitWhy, decodeRounds, result, timeout, elapsed, seen>>
    /\ UNCHANGED <<fbVars, chanVars, readerVars, errno, cpc>>
    /\ UNCHANGED sessVars

\* The connection breaks while the engine reads: the round ends with FALSE.
EngineFail ==
    /\ pc \in {"h_read", "engine"}
    /\ errno' = ECONNRESET
    /\ decodeOk' = FALSE
    /\ pc' = "p_ret"
    /\ UNCHANGED <<waitRes, waitWhy, decodeRounds, result, timeout, elapsed, seen>>
    /\ UNCHANGED <<fbVars, chanVars, readerVars, cpc>>
    /\ UNCHANGED sessVars

\* HandleRFBServerMessage starts by reading the message type from the
\* socket, which blocks until the server has sent something.
EngineRead ==
    /\ pc = "h_read"
    /\ sockData
    /\ sockData' = FALSE
    /\ pc' = "engine"
    /\ UNCHANGED <<interruptReadFd, interruptWriteFd, pipeBytes, signalled,
                   lastDrain>>
    /\ UNCHANGED <<fbVars, procVars, readerVars, errno, cpc>>
    /\ UNCHANGED sessVars

\* A decode round seen from the framebuffer alone: the processing thread has
\* read a message and the engine starts to decode it.
EngineBegin ==
    /\ pc = "idle"
    /\ cpc = "none"
    /\ pc' = "engine"
    /\ UNCHANGED <<fbVars, procVars, chanVars, readerVars, errno, cpc>>
    /\ UNCHANGED sessVars

\* The decode round has returned to the processing thread's loop.
EngineEnd ==
    /\ pc = "p_ret"
    /\ pc' = "idle"
    /\ UNCHANGED <<fbVars, procVars, chanVars, readerVars, errno, cpc>>
    /\ UNCHANGED sessVars

\* The callbacks a decode round runs, and the ways it ends.
EngineRound ==
    \/ EngineNewFBSize
    \/ EngineUpdateRect
    \/ EngineFinish
    \/ EngineCallbackFailed
    \/ EngineFail
    \/ onMallocFrameBuffer
    \/ onFinishedFrameBufferUpdate

\* ---------------------------------------------- the interrupt channel

\* The wait-side descriptor is readable.
Interrupted == interruptReadFd > -1 /\ pipeBytes > 0

\* signal(): one byte written to the non-blocking write end; a write to a
\* full pipe is dropped, a session without a pipe has nothing to write to.
Signal ==
    /\ cpc = "none"
    /\ interruptWriteFd > -1
    /\ pipeBytes' = IF pipeBytes < PipeCap THEN pipeBytes + 1 ELSE pipeBytes
    /\ signalled' = TRUE
    /\ UNCHANGED <<sockData, interruptReadFd, interruptWriteFd, lastDrain>>
    /\ UNCHANGED <<fbVars, procVars, readerVars, errno, pc, cpc>>
    /\ UNCHANGED sessVars

\* Mutant: a wake reads a single byte from the pipe.
Drained_OneByte(n) == n - 1

\* What a wake by the interrupt descriptor leaves in the pipe: the wait
\* reads the descriptor empty.
Drained(n) == 0

\* The server sends a message.
ServerSends ==
    /\ cpc = "none"
    /\ ~sockData
    /\ sockData' = TRUE
    /\ UNCHANGED <<interruptReadFd, interruptWriteFd, pipeBytes, signalled,
                   lastDrain>>
    /\ UNCHANGED <<fbVars, procVars, readerVars, errno, pc, cpc>>
    /\ UNCHANGED sessVars

\* ------------------------------------------- nativeProcessServerMessage

\* The call: WaitForMessage(client, u_sec_timeout) starts to block.
ProcessCall ==
    /\ pc = "idle"
    /\ cpc = "none"
    /\ \E t \in 0 .. MaxTimeout : timeout' = t
    /\ elapsed' = 0
    /\ decodeRounds' = 0
    /\ decodeOk' = FALSE
    /\ result' = "none"
    /\ waitWhy' = "none"
    /\ waitRes' = 0
    /\ pc' = "p_wait"
    /\ UNCHANGED <<seen, fbVars, chanVars, readerVars, errno, cpc>>
    /\ UNCHANGED sessVars

\* Time passes while the wait is blocked: nothing is readable and the
\* timeout has not elapsed.
Tick ==
    /\ pc = "p_wait"
    /\ ~Interrupted
    /\ ~sockData
    /\ elapsed < timeout
    /\ elapsed' = elapsed + 1
    /\ UNCHANGED <<waitRes, waitWhy, decodeRounds, decodeOk, result, timeout, seen>>
    /\ UNCHANGED <<fbVars, chanVars, readerVars, errno, pc, cpc>>
    /\ UNCHANGED sessVars

\* The wait ends because the interrupt descriptor is readable: it is
\* drained and the wait reports no data.
WaitInterrupted ==
    /\ pc = "p_wait"
    /\ Interrupted
    /\ pipeBytes' = Drained(pipeBytes)
    /\ signalled' = FALSE
    /\ lastDrain' = pipeBytes - Drained(pipeBytes)
    /\ waitRes' = 0
    /\ waitWhy' = "interrupted"
    /\ pc' = "p_test"
    /\ UNCHANGED <<sockData, interruptReadFd, interruptWriteFd>>
    /\ UNCHANGED <<decodeRounds, decodeOk, result, timeout, elapsed, seen>>
    /\ UNCHANGED <<fbVars, readerVars, errno, cpc>>
    /\ UNCHANGED sessVars

\* The wait ends because the server socket is readable.
WaitData ==
    /\ pc = "p_wait"
    /\ ~Interrupted
    /\ sockData
    /\ waitRes' = 1
    /\ waitWhy' = "data"
    /\ pc' = "p_test"
    /\ UNCHANGED <<decodeRounds, decodeOk, result, timeout, elapsed, seen>>
    /\ UNCHANGED <<fbVars, chanVars, readerVars, errno, cpc>>
    /\ UNCHANGED sessVars

\* The wait ends because the timeout elapsed.
WaitTimeout ==
    /\ pc = "p_wait"
    /\ ~Interrupted
    /\ ~sockData
    /\ elapsed = timeout
    /\ waitRes' = 0
    /\ waitWhy' = "timeout"
    /\ pc' = "p_test"
    /\ UNCHANGED <<decodeRounds, decodeOk, result, timeout, elapsed, seen>>
    /\ UNCHANGED <<fbVars, chanVars, readerVars, errno, cpc>>
    /\ UNCHANGED sessVars

\* The wait fails (select reports an error).
WaitError ==
    /\ pc = "p_wait"
    /\ waitRes' = -1
    /\ waitWhy' = "error"
    /\ errno' = EIO
    /\ pc' = "p_test"
    /\ UNCHANGED <<decodeRounds, decodeOk, result, timeout, elapsed, seen>>
    /\ UNCHANGED <<fbVars, chanVars, readerVars, cpc>>
    /\ UNCHANGED sessVars

WaitForMessage ==
    \/ WaitInterrupted
    \/ WaitData
    \/ WaitTimeout
    \/ WaitError

\* if (WaitForMessage(...) >= 0): whether HandleRFBServerMessage is called.
Decodes(r) == r >= 0

\* The test of the wait's result, and the call of HandleRFBServerMessage.
ProcessTest ==
    /\ pc = "p_test"
    /\ IF Decodes(waitRes)
       THEN /\ decodeRounds' = decodeRounds + 1
            /\ pc' = "h_read"
       ELSE /\ decodeRounds' = decodeRounds
            /\ pc' = "p_ret"
    /\ UNCHANGED <<waitRes, waitWhy, decodeOk, result, timeout, elapsed, seen>>
    /\ UNCHANGED <<fbVars, chanVars, readerVars, errno, cpc>>
    /\ UNCHANGED sessVars

\* Mutant: the value of HandleRFBServerMessage is ignored.
ResultOf_Wait(r, ok) == IF r >= 0 THEN "JNI_TRUE" ELSE "JNI_FALSE"

\* The value returned: JNI_TRUE when the wait did not fail and the decode
\* round returned TRUE, JNI_FALSE otherwise.
ResultOf(r, ok) == IF Decodes(r) /\ ok THEN "JNI_TRUE" ELSE "JNI_FALSE"

\* The class of a call, by how its wait ended and what the decode did.
ClassOf(why, ok) ==
    IF why \in {"timeout", "interrupted"} THEN "timeout"
    ELSE IF why = "data" /\ ok THEN "progress"
    ELSE "fatal"

\* return JNI_TRUE / return JNI_FALSE
ProcessReturn ==
    /\ pc = "p_ret"
    /\ result' = ResultOf(waitRes, decodeOk)
    /\ seen' = seen \cup {<<ClassOf(waitWhy, decodeOk), ResultOf(waitRes, decodeOk)>>}
    /\ pc' = "idle"
    /\ UNCHANGED <<waitRes, waitWhy, decodeRounds, decodeOk, timeout, elapsed>>
    /\ UNCHANGED <<fbVars, chanVars, readerVars, errno, cpc>>
    /\ UNCHANGED sessVars

nativeProcessServerMessage ==
    \/ ProcessCall
    \/ Tick
    \/ WaitForMessage
    \/ ProcessTest
    \/ ProcessReturn

\* ------------------------------------------------ nativeUploadFrameTexture

\* LOCK(client->fbMutex)
ReaderLock(r) ==
    /\ rpc[r] = "idle"
    /\ cpc # "done"
    /\ fbMutex = "none"
    /\ fbMutex' = r
    /\ rpc' = [rpc EXCEPT ![r] = "r_test"]
    /\ UNCHANGED <<heap, frameBuffer, fbRealWidth, fbRealHeight, width, height,
                   lastSizeEvent, lastRealloc, nRealloc>>
    /\ UNCHANGED <<rbuf, rw, rh, procVars, chanVars, errno, pc, cpc>>
    /\ UNCHANGED sessVars

\* if (client->frameBuffer)
ReaderTest(r) ==
    /\ rpc[r] = "r_test"
    /\ rbuf' = [rbuf EXCEPT ![r] = frameBuffer]
    /\ rpc' = [rpc EXCEPT ![r] = IF frameBuffer # 0 THEN "r_upload" ELSE "r_unlock"]
    /\ UNCHANGED <<rw, rh, fbVars, procVars, chanVars, errno, pc, cpc>>
    /\ UNCHANGED sessVars

\* glTexImage2D(..., fbRealWidth, fbRealHeight, ..., frameBuffer): the
\* arguments are read and the pixels copied.  The pointer is the one the
\* test read or, read again, the one the field holds now.
ReaderUpload(r) ==
    /\ rpc[r] = "r_upload"
    /\ rw' = [rw EXCEPT ![r] = fbRealWidth]
    /\ rh' = [rh EXCEPT ![r] = fbRealHeight]
    /\ \E p \in {rbuf[r], frameBuffer} : rbuf' = [rbuf EXCEPT ![r] = p]
    /\ rpc' = [rpc EXCEPT ![r] = "r_unlock"]
    /\ UNCHANGED <<fbVars, procVars, chanVars, errno, pc, cpc>>
    /\ UNCHANGED sessVars

\* UNLOCK(client->fbMutex)
ReaderUnlock(r) ==
    /\ rpc[r] = "r_unlock"
    /\ fbMutex' = "none"
    /\ rpc' = [rpc EXCEPT ![r] = "idle"]
    /\ rbuf' = [rbuf EXCEPT ![r] = 0]
    /\ rw' = [rw EXCEPT ![r] = 0]
    /\ rh' = [rh EXCEPT ![r] = 0]
    /\ UNCHANGED <<heap, frameBuffer, fbRealWidth, fbRealHeight, width, height,
                   lastSizeEvent, lastRealloc, nRealloc>>
    /\ UNCHANGED <<procVars, chanVars, errno, pc, cpc>>
    /\ UNCHANGED sessVars

nativeUploadFrameTexture ==
    \E r \in Readers :
        \/ ReaderLock(r)
        \/ ReaderTest(r)
        \/ ReaderUpload(r)
        \/ ReaderUnlock(r)

\* ---------------------------------------------------------- nativeCleanup

\* if (client->frameBuffer) free(client->frameBuffer);  The caller has
\* stopped the processing thread; no lock is taken.
CleanupFree ==
    /\ cpc = "none"
    /\ pc = "idle"
    /\ IF frameBuffer # 0
       THEN /\ heap' = Free(heap, frameBuffer)
            /\ cpc' = "c_null"
       ELSE /\ heap' = heap
            /\ cpc' = "c_ext"
    /\ UNCHANGED <<frameBuffer, fbRealWidth, fbRealHeight, width, height,
                   fbMutex, lastSizeEvent, lastRealloc, nRealloc>>
    /\ UNCHANGED <<procVars, chanVars, readerVars, errno, pc>>
    /\ UNCHANGED sessVars

\* client->frameBuffer = nullptr;
CleanupNull ==
    /\ cpc = "c_null"
    /\ frameBuffer' = 0
    /\ cpc' = "c_ext"
    /\ UNCHANGED <<heap, fbRealWidth, fbRealHeight, width, height,
                   fbMutex, lastSizeEvent, lastRealloc, nRealloc>>
    /\ UNCHANGED <<procVars, chanVars, readerVars, errno, pc>>
    /\ UNCHANGED sessVars

\* Mutant: the Cursor is freed and its buffer is not.
freeCursor_KeepsBuffer(hd, c) == ReleaseIf(hd, "cursor", c.alloc)

\* freeCursor(cursor): the buffer, if there is a cursor that has one, and
\* the Cursor itself.
freeCursor(hd, c) ==
    ReleaseIf(ReleaseIf(hd, "cursorBuffer", c.alloc /\ c.buffer.present),
              "cursor", c.alloc)

\* Mutant: both descriptors are closed whether they are there or not.
Closes_Always(fd) == TRUE

\* if (fd > -1) close(fd);
Closes(fd) == fd > -1

\* freeClientExtension(client): the cursor, the two pipe descriptors when
\* they are there, and the ClientEx itself.
freeClientExtension(hd, c, rfd, wfd) ==
    Release(ReleaseIf(ReleaseIf(freeCursor(hd, c),
                                "interruptReadFd", Closes(rfd)),
                      "interruptWriteFd", Closes(wfd)),
            "ex")

\* The session's extension is released: freeClientExtension(client).
CleanupExtension ==
    /\ cpc = "c_ext"
    /\ held' = freeClientExtension(held, cursor, interruptReadFd, interruptWriteFd)
    /\ cursor' = NullCursor
    /\ cpc' = "c_rest"
    /\ UNCHANGED <<shape, lastUpdate, csnap, lifeVars, credVars>>
    /\ UNCHANGED <<fbVars, procVars, chanVars, readerVars, errno, pc>>

\* DeleteGlobalRef(managedClient); rfbClientCleanup(client);  The session
\* is closed.
CleanupRest ==
    /\ cpc = "c_rest"
    /\ held' = Release(held, "managedClient")
    /\ state' = "Closed"
    /\ cpc' = "done"
    /\ UNCHANGED <<connected, port, serverPort, authSchemes, useRemoteCursor,
                   desktopName, tlsSession, info, errStr>>
    /\ UNCHANGED <<credVars, cursorVars>>
    /\ UNCHANGED <<fbVars, procVars, chanVars, readerVars, errno, pc>>

nativeCleanup ==
    \/ CleanupFree
    \/ CleanupNull
    \/ CleanupExtension
    \/ CleanupRest

\* ------------------------------------------- the cursor-shape callback

\* The engine has decoded a cursor-shape rectangle, one of the shapes S, and
\* calls the cursor callback with it.
EngineCursorShape(S) ==
    /\ pc = "engine"
    /\ cursor.alloc
    /\ \E s \in S : shape' = s
    /\ pc' = "c_update"
    /\ UNCHANGED <<cursor, lastUpdate, csnap, held, lifeVars, credVars>>
    /\ UNCHANGED <<fbVars, procVars, chanVars, readerVars, errno, cpc>>

\* What updateCursor does to the resources: the old buffer is freed, and a
\* new one is held when malloc succeeds.
UpdateHeld(hd, c, ok) ==
    IF ok
    THEN Acquire(ReleaseIf(hd, "cursorBuffer", c.buffer.present), "cursorBuffer")
    ELSE ReleaseIf(hd, "cursorBuffer", c.buffer.present)

\* The cursor callback: updateCursor(ex->cursor, buffer, mask, width,
\* height, xHot, yHot); its malloc succeeds or fails.
GotCursorShape ==
    /\ pc = "c_update"
    /\ \E ok \in BOOLEAN :
          /\ cursor' = updateCursor(cursor, shape.buffer, shape.mask,
                                    shape.width, shape.height,
                                    shape.xHot, shape.yHot, ok)
          /\ held' = UpdateHeld(held, cursor, ok)
          /\ lastUpdate' = IF ok THEN "ok" ELSE "enomem"
    /\ pc' = "engine"
    /\ UNCHANGED <<shape, csnap, lifeVars, credVars>>
    /\ UNCHANGED <<fbVars, procVars, chanVars, readerVars, errno, cpc>>

\* ------------------------------------ the cursor, updated and read under lock

\* The cursor callback of a session that guards its cursor with the
\* session's mutex: LOCK, updateCursor(...), UNLOCK.
CursorLock ==
    /\ pc = "c_update"
    /\ fbMutex = "none"
    /\ fbMutex' = "proc"
    /\ pc' = "cu_update"
    /\ UNCHANGED <<heap, frameBuffer, fbRealWidth, fbRealHeight, width, height,
                   lastSizeEvent, lastRealloc, nRealloc>>
    /\ UNCHANGED <<procVars, chanVars, readerVars, errno, cpc>>
    /\ UNCHANGED sessVars

CursorUpdate ==
    /\ pc = "cu_update"
    /\ \E ok \in BOOLEAN :
          /\ cursor' = updateCursor(cursor, shape.buffer, shape.mask,
                                    shape.width, shape.height,
                                    shape.xHot, shape.yHot, ok)
          /\ held' = UpdateHeld(held, cursor, ok)
          /\ lastUpdate' = IF ok THEN "ok" ELSE "enomem"
    /\ pc' = "cu_unlock"
    /\ UNCHANGED <<shape, csnap, lifeVars, credVars>>
    /\ UNCHANGED <<fbVars, procVars, chanVars, readerVars, errno, cpc>>

CursorUnlock ==
    /\ pc = "cu_unlock"
    /\ fbMutex' = "none"
    /\ pc' = "engine"
    /\ UNCHANGED <<heap, frameBuffer, fbRealWidth, fbRealHeight, width, height,
                   lastSizeEvent, lastRealloc, nRealloc>>
    /\ UNCHANGED <<procVars, chanVars, readerVars, errno, cpc>>
    /\ UNCHANGED sessVars

CursorUnderLock ==
    \/ CursorLock
    \/ CursorUpdate
    \/ CursorUnlock

\* A reader's snapshot of the cursor: LOCK, the Cursor and its buffer are
\* read through ex->cursor, UNLOCK.
CursorReaderLock(r) ==
    /\ rpc[r] = "idle"
    /\ cpc # "done"
    /\ fbMutex = "none"
    /\ fbMutex' = r
    /\ rpc' = [rpc EXCEPT ![r] = "k_read"]
    /\ UNCHANGED <<heap, frameBuffer, fbRealWidth, fbRealHeight, width, height,
                   lastSizeEvent, lastRealloc, nRealloc>>
    /\ UNCHANGED <<rbuf, rw, rh, procVars, chanVars, errno, pc, cpc>>
    /\ UNCHANGED sessVars

CursorReaderRead(r) ==
    /\ rpc[r] = "k_read"
    /\ csnap' = [csnap EXCEPT ![r] = <<cursor>>]
    /\ rpc' = [rpc EXCEPT ![r] = "k_unlock"]
    /\ UNCHANGED <<cursor, shape, lastUpdate, held, lifeVars, credVars>>
    /\ UNCHANGED <<rbuf, rw, rh, fbVars, procVars, chanVars, errno, pc, cpc>>

CursorReaderUnlock(r) ==
    /\ rpc[r] = "k_unlock"
    /\ fbMutex' = "none"
    /\ rpc' = [rpc EXCEPT ![r] = "idle"]
    /\ csnap' = [csnap EXCEPT ![r] = <<>>]
    /\ UNCHANGED <<heap, frameBuffer, fbRealWidth, fbRealHeight, width, height,
                   lastSizeEvent, lastRealloc, nRealloc>>
    /\ UNCHANGED <<cursor, shape, lastUpdate, held, lifeVars, credVars>>
    /\ UNCHANGED <<rbuf, rw, rh, procVars, chanVars, errno, pc, cpc>>

CursorSnapshot ==
    \E r \in Readers :
        \/ CursorReaderLock(r)
        \/ CursorReaderRead(r)
        \/ CursorReaderUnlock(r)

\* ---------------------------------------------------------- nativeConfigure

\* What a host configures, <<securityType, use_local_cursor>>: every
\* security type (0) or one scheme, with the cursor drawn locally or not.
Configurations == {<<0, TRUE>>, <<2, FALSE>>}

\* if (securityType != 0) SetClientAuthSchemes(client, auth, 1);
\* client->appData.useRemoteCursor = use_local_cursor;
nativeConfigure ==
    /\ state = "Created"
    /\ pc = "idle"
    /\ cpc = "none"
    /\ \E cfg \in Configurations :
          LET securityType == cfg[1]
              use_local_cursor == cfg[2]
          IN  /\ authSchemes' = IF securityType # 0 THEN <<securityType>>
                                                    ELSE authSchemes
              /\ useRemoteCursor' = use_local_cursor
    /\ state' = "Configured"
    /\ UNCHANGED <<connected, port, serverPort, desktopName, tlsSession, info, errStr>>
    /\ UNCHANGED <<credVars, cursorVars, held>>
    /\ UNCHANGED <<fbVars, procVars, chanVars, readerVars, errno, pc, cpc>>

\* --------------------------------------------------------------- nativeInit

\* Mutant: the offset is added up to and including the limit.
ServerPort_Inclusive(p) ==
    IF p <= DisplayPortLimit THEN p + DisplayPortBase ELSE p

\* client->serverPort = port < 100 ? port + 5900 : port;
ServerPort(p) == IF p < DisplayPortLimit THEN p + DisplayPortBase ELSE p

\* The call: the port is stored and rfbInitClient starts the handshake.
InitCall ==
    /\ state = "Configured"
    /\ pc = "idle"
    /\ cpc = "none"
    /\ serverPort' = ServerPort(port)
    /\ state' = "Connecting"
    /\ pc' = "i_engine"
    /\ UNCHANGED <<connected, port, authSchemes, useRemoteCursor, desktopName,
                   tlsSession, info, errStr>>
    /\ UNCHANGED <<credVars, cursorVars, held>>
    /\ UNCHANGED <<fbVars, procVars, chanVars, readerVars, errno, cpc>>

\* Mutant: a failed connect releases the framebuffer and keeps the pointer.
InitFalse_FreesBuffer ==
    /\ pc = "i_false"
    /\ heap' = IF frameBuffer # 0 THEN Free(heap, frameBuffer) ELSE heap
    /\ state' = "Failed"
    /\ pc' = "idle"
    /\ UNCHANGED <<frameBuffer, fbRealWidth, fbRealHeight, width, height,
                   fbMutex, lastSizeEvent, lastRealloc, nRealloc>>
    /\ UNCHANGED <<connected, port, serverPort, authSchemes, useRemoteCursor,
                   desktopName, tlsSession, info, errStr>>
    /\ UNCHANGED <<credVars, cursorVars, held>>
    /\ UNCHANGED <<procVars, chanVars, readerVars, errno, cpc>>

\* rfbInitClient returned FALSE: return JNI_FALSE.  Nothing is released
\* here; the session has failed.
InitFalse ==
    /\ pc = "i_false"
    /\ state' = "Failed"
    /\ pc' = "idle"
    /\ UNCHANGED <<connected, port, serverPort, authSchemes, useRemoteCursor,
                   desktopName, tlsSession, info, errStr>>
    /\ UNCHANGED <<credVars, cursorVars, held>>
    /\ UNCHANGED <<fbVars, procVars, chanVars, readerVars, errno, cpc>>

\* rfbInitClient returned TRUE: return JNI_TRUE.  The session is connected.
InitTrue ==
    /\ pc = "engine"
    /\ state = "Connecting"
    /\ state' = "Connected"
    /\ connected' = TRUE
    /\ pc' = "idle"
    /\ UNCHANGED <<port, serverPort, authSchemes, useRemoteCursor, desktopName,
                   tlsSession, info, errStr>>
    /\ UNCHANGED <<credVars, cursorVars, held>>
    /\ UNCHANGED <<fbVars, procVars, chanVars, readerVars, errno, cpc>>

nativeInit ==
    \/ InitCall
    \/ InitTrue
    \/ InitFalse

\* ---------------------------------------------------------- onGetCredential

\* What the listener (cbGetCredential) may answer: nothing, or a credential.
ListenerAnswers == {<<>>, <<[username |-> "user", password |-> "secret"]>>}

\* Mutant: every kind of credential is taken to the listener.
Supported_Any(t) == TRUE

\* Only rfbCredentialTypeUser is supported.
Supported(t) == t = rfbCredentialTypeUser

\* The callback: an unsupported kind returns nullptr at once; otherwise the
\* listener is asked, and its answer, if any, is copied into a new
\* rfbCredential.  The malloc of that record is not tested: when it fails
\* the write through the null pointer ends the process.
onGetCredential ==
    /\ pc = "g_cred"
    /\ IF ~Supported(credentialType)
       THEN /\ credential' = <<>>
            /\ pc' = "i_auth"
            /\ UNCHANGED <<listenerCalls, listenerAnswer>>
       ELSE \E ans \in ListenerAnswers :
               /\ listenerCalls' = listenerCalls + 1
               /\ listenerAnswer' = ans
               /\ IF ans = <<>>
                  THEN /\ credential' = <<>>
                       /\ pc' = "i_auth"
                  ELSE \/ /\ credential' = <<[username |-> ans[1].username,
                                              password |-> ans[1].password]>>
                          /\ pc' = "i_auth"
                       \/ /\ credential' = <<>>
                          /\ pc' = "abort"
    /\ UNCHANGED <<credentialType, lifeVars, cursorVars, held>>
    /\ UNCHANGED <<fbVars, procVars, chanVars, readerVars, errno, cpc>>

\* ------------------------------------ the engine's handshake (rfbInitClient)

\* The connection cannot be made: the server refuses it.
EngineConnectFails ==
    /\ pc = "i_engine"
    /\ errno' = ECONNREFUSED
    /\ pc' = "i_false"
    /\ UNCHANGED <<fbVars, procVars, chanVars, readerVars, cpc, sessVars>>

\* The server's security type needs a credential: the engine asks the
\* GetCredential callback for one kind of credential.
EngineAsksCredential ==
    /\ pc = "i_engine"
    /\ credentialType' \in {rfbCredentialTypeX509, rfbCredentialTypeUser}
    /\ pc' = "g_cred"
    /\ UNCHANGED <<credential, listenerCalls, listenerAnswer>>
    /\ UNCHANGED <<lifeVars, cursorVars, held>>
    /\ UNCHANGED <<fbVars, procVars, chanVars, readerVars, errno, cpc>>

\* The engine goes on with what the callback returned: without a credential
\* the authentication fails; with one the server accepts or rejects it.  The
\* engine releases the credential.
EngineAuth ==
    /\ pc = "i_auth"
    /\ \/ /\ errno' = EACCES
          /\ pc' = "i_false"
       \/ /\ credential # <<>>
          /\ errno' = errno
          /\ pc' = "i_init"
    /\ credentialType' = 0
    /\ credential' = <<>>
    /\ listenerCalls' = 0
    /\ listenerAnswer' = <<>>
    /\ UNCHANGED <<lifeVars, cursorVars, held>>
    /\ UNCHANGED <<fbVars, procVars, chanVars, readerVars, cpc>>

\* ServerInit: the engine stores the desktop's size, one of D, and name in
\* the client and calls MallocFrameBuffer.  A session restricted to one
\* password scheme is not encrypted; any other may be.
EngineServerInit(D) ==
    /\ pc \in {"i_engine", "i_init"}
    /\ nRealloc < MaxReallocs
    /\ \E d \in D :
          /\ width' = d[1]
          /\ height' = d[2]
    /\ desktopName' = <<"desktop">>
    /\ tlsSession' \in (IF authSchemes = <<>> THEN BOOLEAN ELSE {FALSE})
    /\ nRealloc' = nRealloc + 1
    /\ pc' = "m_size"
    /\ UNCHANGED <<heap, frameBuffer, fbRealWidth, fbRealHeight, fbMutex,
                   lastSizeEvent, lastRealloc>>
    /\ UNCHANGED <<state, connected, port, serverPort, authSchemes,
                   useRemoteCursor, info, errStr>>
    /\ UNCHANGED <<credVars, cursorVars, held>>
    /\ UNCHANGED <<procVars, chanVars, readerVars, errno, cpc>>

\* MallocFrameBuffer returned FALSE during the handshake: it fails.
EngineInitCallbackFailed ==
    /\ pc = "m_false"
    /\ state = "Connecting"
    /\ pc' = "i_false"
    /\ UNCHANGED <<fbVars, procVars, chanVars, readerVars, errno, cpc, sessVars>>

\* The handshake fails after the framebuffer has been allocated.
EngineInitFails ==
    /\ pc = "engine"
    /\ state = "Connecting"
    /\ errno' = ECONNRESET
    /\ pc' = "i_false"
    /\ UNCHANGED <<fbVars, procVars, chanVars, readerVars, cpc, sessVars>>

rfbInitClient ==
    \/ EngineConnectFails
    \/ EngineAsksCredential
    \/ EngineAuth
    \/ EngineServerInit(Dims \X Dims)
    \/ EngineInitCallbackFailed
    \/ EngineInitFails

\* ------------------------------------------------ the session's decode rounds

\* The shape of the cursor updates a session receives.
SampleShapes == {Shape(SourceBuffer(1, 0), <<1>>, 1, 1, 0, 0)}

\* A decode round of a connected session starts.
SessionBegin == state = "Connected" /\ EngineBegin

\* What the engine does in a decode round of a connected session: the
\* desktop is resized, the cursor changes, or the round ends, well or not.
SessionRound ==
    /\ state = "Connected"
    /\ \/ EngineNewFBSize
       \/ EngineCursorShape(SampleShapes)
       \/ EngineFinish
       \/ EngineCallbackFailed
       \/ EngineFail

\* The round has returned to the host's loop: after a failed round the
\* session has failed.
SessionEnd ==
    /\ pc = "p_ret"
    /\ state' = IF decodeOk THEN state ELSE "Failed"
    /\ pc' = "idle"
    /\ UNCHANGED <<connected, port, serverPort, authSchemes, useRemoteCursor,
                   desktopName, tlsSession, info, errStr>>
    /\ UNCHANGED <<credVars, cursorVars, held>>
    /\ UNCHANGED <<fbVars, procVars, chanVars, readerVars, errno, cpc>>

\* ------------------------------------------------- connection-info getters

\* What the four getters give the host: no error, and four values.
InfoValues(n, w, h, e) ==
    [error |-> FALSE, desktopName |-> n, width |-> w, height |-> h,
     encrypted |-> e]

\* nativeGetDesktopName, nativeGetWidth, nativeGetHeight, nativeIsEncrypted
\* on a client that exists: the fields of the client as they are, "" for a
\* name that is not there.  No getter looks at the state of the session.
ClientInfo ==
    InfoValues(IF desktopName # <<>> THEN desktopName[1] ELSE "",
               width, height, tlsSession)

\* What the getters may give for a client that rfbClientCleanup has freed:
\* whatever the memory holds by then.
FreedInfo ==
    {InfoValues(n, w, h, e) : n \in {"", "desktop"}, w \in {0, width},
                              h \in {0, height}, e \in BOOLEAN}

\* The host reads the connection info, at any time; with the values the
\* session's state and whether it ever connected are noted.
nativeGetConnectionInfo ==
    /\ cpc \in {"none", "done"}
    /\ \E v \in (IF cpc = "done" THEN FreedInfo ELSE {ClientInfo}) :
          info' = <<[at |-> state, connected |-> connected, got |-> v]>>
    /\ UNCHANGED <<state, connected, port, serverPort, authSchemes,
                   useRemoteCursor, desktopName, tlsSession, errStr>>
    /\ UNCHANGED <<credVars, cursorVars, held>>
    /\ UNCHANGED <<fbVars, procVars, chanVars, readerVars, errno, pc, cpc>>

\* A decode round of a connected session ends with a lost connection.
SessionLost == state = "Connected" /\ EngineFail

\* ------------------------------------------------------ nativeGetLastErrorStr

\* strerror(e) of the C library, for the values errnoToStr passes to it.
StrError(e) ==
    CASE e = EIO -> "I/O error"
      [] e = ENOMEM -> "Out of memory"
      [] e = EPROTO -> "Protocol error"
      [] e = ENETDOWN -> "Network is down"
      [] e = ENETUNREACH -> "Network is unreachable"
      [] e = ENETRESET -> "Network dropped connection on reset"
      [] e = ECONNABORTED -> "Software caused connection abort"
      [] e = ETIMEDOUT -> "Connection timed out"
      [] e = EHOSTDOWN -> "Host is down"
      [] e = EHOSTUNREACH -> "No route to host"
      [] OTHER -> "Unknown error"

\* gai_strerror(n) of the C library: a message for every code, known or not.
GaiStrError(n) ==
    CASE n = 1 -> "Address family for hostname not supported"
      [] n = 2 -> "Temporary failure in name resolution"
      [] n = 3 -> "Invalid value for ai_flags"
      [] OTHER -> "Unknown error"

\* Mutant: getaddrinfo errors are not told apart from other values.
errnoToStr_NoGai(e) ==
    IF e \in {ENETDOWN, ENETRESET, ENETUNREACH, ECONNABORTED, EHOSTDOWN,
              EHOSTUNREACH, ETIMEDOUT, ENOMEM, EPROTO, EIO}
    THEN StrError(e)
    ELSE IF e = ECONNREFUSED
    THEN "Connection refused! Server may be down or running on different port"
    ELSE IF e = ECONNRESET THEN "Connection closed by server"
    ELSE IF e = EACCES THEN "Authentication failed"
    ELSE ""

\* errnoToStr(e): values below -1000 are getaddrinfo errors; ten values get
\* the C library's description, three a text of their own, and every other
\* value the empty string.
errnoToStr(e) ==
    IF e < -GaiErrnoBase
    THEN GaiStrError((-e) - GaiErrnoBase)
    ELSE IF e \in {ENETDOWN, ENETRESET, ENETUNREACH, ECONNABORTED, EHOSTDOWN,
                   EHOSTUNREACH, ETIMEDOUT, ENOMEM, EPROTO, EIO}
    THEN StrError(e)
    ELSE IF e = ECONNREFUSED
    THEN "Connection refused! Server may be down or running on different port"
    ELSE IF e = ECONNRESET THEN "Connection closed by server"
    ELSE IF e = EACCES THEN "Authentication failed"
    ELSE ""

\* auto str = errnoToStr(errno); return env->NewStringUTF(str);
nativeGetLastErrorStr ==
    /\ errStr' = <<errnoToStr(errno)>>
    /\ UNCHANGED <<state, connected, port, serverPort, authSchemes,
                   useRemoteCursor, desktopName, tlsSession, info>>
    /\ UNCHANGED <<credVars, cursorVars, held>>
    /\ UNCHANGED <<fbVars, procVars, chanVars, readerVars, errno, pc, cpc>>

\* ------------------------------------------------------- specifications

\* The framebuffer: decode rounds of the processing thread, reader threads
\* and the host's cleanup.
Next ==
    \/ EngineBegin
    \/ EngineRound
    \/ EngineEnd
    \/ nativeUploadFrameTexture
    \/ nativeCleanup

Spec == Init /\ [][Next]_vars

\* The message loop: calls of nativeProcessServerMessage by the processing
\* thread, a server that sends updates of an unchanged size, and signals
\* from the host thread.
NextProcess ==
    \/ nativeProcessServerMessage
    \/ EngineRead
    \/ EngineFinish
    \/ EngineFail
    \/ onFinishedFrameBufferUpdate
    \/ Signal
    \/ ServerSends

SpecProcess == Init /\ [][NextProcess]_vars

\* The cursor: a freshly created cursor (the allocation of its buffer may
\* have failed) and decode rounds that carry cursor shapes.
InitCursor == \E okb \in BOOLEAN : Created(0, okb, 1, 0)

NextCursor ==
    \/ EngineBegin
    \/ EngineCursorShape(CursorShapes)
    \/ GotCursorShape

SpecCursor == InitCursor /\ [][NextCursor]_vars

\* The session's life: configure, connect, decode rounds and cleanup; the
\* pipe and the allocation of the cursor's buffer may have failed.
InitSession == \E r \in {0, -1}, okb \in BOOLEAN : Created(r, okb, 1, 0)

NextSession ==
    \/ nativeConfigure
    \/ nativeInit
    \/ rfbInitClient
    \/ onGetCredential
    \/ onMallocFrameBuffer
    \/ SessionBegin
    \/ SessionRound
    \/ GotCursorShape
    \/ onFinishedFrameBufferUpdate
    \/ SessionEnd
    \/ nativeCleanup

SpecSession == InitSession /\ [][NextSession]_vars

\* A connect, with any port a host may pass, to a server that refuses.
Ports == (-1 .. MaxPort) \cup {DisplayPortBase, DisplayPortBase + 50}

InitPort == \E p \in Ports : Created(0, TRUE, p, 0)

NextPort ==
    \/ nativeConfigure
    \/ InitCall
    \/ EngineConnectFails
    \/ InitFalse

SpecPort == InitPort /\ [][NextPort]_vars

\* The message loop of a session from its creation to its cleanup: the
\* session connects to a 1 x 1 desktop, the loop and the host's signals run
\* while it is connected, and cleanup ends it.
LoopCall == state = "Connected" /\ ProcessCall

NextLoop ==
    \/ nativeConfigure
    \/ nativeInit
    \/ EngineConnectFails
    \/ EngineServerInit({<<1, 1>>})
    \/ EngineInitCallbackFailed
    \/ onMallocFrameBuffer
    \/ LoopCall
    \/ Tick
    \/ WaitForMessage
    \/ ProcessTest
    \/ ProcessReturn
    \/ EngineRead
    \/ EngineFinish
    \/ EngineFail
    \/ onFinishedFrameBufferUpdate
    \/ Signal
    \/ ServerSends
    \/ nativeCleanup

SpecLoop == Init /\ [][NextLoop]_vars

\* The connection info, read at any point of a session's life: before,
\* while and after it connects to a desktop of 1 x 1 or 2 x 1, after the
\* connection is lost and after cleanup.
NextInfo ==
    \/ nativeConfigure
    \/ nativeInit
    \/ EngineConnectFails
    \/ EngineServerInit({<<1, 1>>, <<2, 1>>})
    \/ EngineInitCallbackFailed
    \/ onMallocFrameBuffer
    \/ SessionBegin
    \/ SessionLost
    \/ SessionEnd
    \/ nativeCleanup
    \/ nativeGetConnectionInfo

SpecInfo == Init /\ [][NextInfo]_vars

\* The description of the last error, for every value errno may have: the
\* getaddrinfo errors, zero and the values of the platform's errno.h.
ErrnoValues == (-(GaiErrnoBase + MaxGaiError)) .. MaxErrno

InitErrno == \E e \in ErrnoValues : Created(0, TRUE, 1, e)

NextErrno == nativeGetLastErrorStr

SpecErrno == InitErrno /\ [][NextErrno]_vars

\* The framebuffer lock: a session connects to a desktop of 1 x 1 or of the
\* largest size, so that the allocation succeeds, fails or is refused as
\* too large; its listener may take a snapshot inside the size-changed
\* callback, and two reader threads upload the framebuffer again and again.
InitLock == Created(0, TRUE, 1, 0)

NextLock ==
    \/ nativeConfigure
    \/ nativeInit
    \/ EngineServerInit({<<1, 1>>, <<MaxDim, MaxDim>>})
    \/ EngineInitCallbackFailed
    \/ onMallocFrameBuffer
    \/ SnapshotInCallback
    \/ nativeUploadFrameTexture

\* A thread that can take a step takes it, and a thread blocked in LOCK gets
\* the mutex when it is released again and again.
FairLock ==
    /\ WF_vars(MallocFree \/ MallocAlloc \/ MallocPublish \/ MallocUnlock
                   \/ MallocCheck)
    /\ WF_vars(ListenerUpload \/ ListenerUnlock)
    /\ SF_vars(MallocLock)
    /\ SF_vars(ListenerLock)
    /\ \A r \in Readers :
          /\ WF_vars(ReaderTest(r) \/ ReaderUpload(r) \/ ReaderUnlock(r))
          /\ SF_vars(ReaderLock(r))

SpecLock == InitLock /\ [][NextLock]_vars /\ FairLock

\* The cursor between the processing thread and the readers: decode rounds
\* carry one of two shapes, the callback updates the cursor under the lock
\* and two readers take snapshots of it under the lock.
SnapshotShapes ==
    {Shape(SourceBuffer(1, 0), <<1>>, 1, 1, 0, 0),
     Shape(SourceBuffer(2, 1), <<1, 0>>, 2, 1, 1, 0)}

NextSnapshot ==
    \/ EngineBegin
    \/ EngineCursorShape(SnapshotShapes)
    \/ CursorUnderLock
    \/ CursorSnapshot

SpecSnapshot == InitLock /\ [][NextSnapshot]_vars

\* What the engine does in a decode round that resizes the desktop: it
\* announces a size, ends the update, or gives up after a refused
\* reallocation.
SizeRound ==
    /\ state = "Connected"
    /\ \/ EngineNewFBSize
       \/ EngineFinish
       \/ EngineCallbackFailed

\* The frame size as the host can learn it: a session that connects to a
\* desktop of 1 x 1 or 2 x 1, is resized by the server, and whose connection
\* info the host reads at any time.
NextSizes ==
    \/ nativeConfigure
    \/ nativeInit
    \/ EngineServerInit({<<1, 1>>, <<2, 1>>})
    \/ EngineInitCallbackFailed
    \/ onMallocFrameBuffer
    \/ onFinishedFrameBufferUpdate
    \/ SessionBegin
    \/ SizeRound
    \/ SessionEnd
    \/ nativeGetConnectionInfo

SpecSizes == InitLock /\ [][NextSizes]_vars

\* ------------------------------------------------------------ properties

\* What a snapshot taken under fbMutex reads: the published dimensions and
\* the buffer.
FramebufferSnapshot ==
    [width |-> fbRealWidth,
     height |-> fbRealHeight,
     buffer |-> IF frameBuffer = 0 THEN <<>> ELSE <<heap[frameBuffer]>>]

\* A reader has read the three fields inside its locked section.
HasRead(r) == rpc[r] = "r_unlock" /\ rbuf[r] # 0

\* C1: while the processing thread reallocates, a reader inside its locked
\* section never reads a width and height paired with a buffer allocated for
\* other dimensions; as long as no cleanup runs, what it read is the current
\* live buffer and its dimensions.
C1_ReaderSeesConsistentTriple ==
    \A r \in Readers :
        HasRead(r) =>
            /\ heap[rbuf[r]].w = rw[r]
            /\ heap[rbuf[r]].h = rh[r]
            /\ heap[rbuf[r]].size = rw[r] * rh[r] * 4
            /\ cpc = "none" =>
                  /\ rbuf[r] = frameBuffer
                  /\ heap[rbuf[r]].live
                  /\ rw[r] = fbRealWidth
                  /\ rh[r] = fbRealHeight

\* C1 witness: after a second reallocation to other dimensions a reader has
\* read the new buffer while the processing thread is inside the callback.
C1_Witness ==
    \E r \in Readers :
        /\ HasRead(r)
        /\ rbuf[r] = 2
        /\ <<heap[1].w, heap[1].h>> # <<heap[2].w, heap[2].h>>
        /\ pc = "m_notify"

\* C2: every write to the buffer pointer or to the published dimensions is
\* made by a thread that holds fbMutex.  The processing thread is the only
\* one that takes the lock to write; nativeCleanup writes without it.
C2_WritesUnderLock ==
    [][(\/ frameBuffer' # frameBuffer
        \/ fbRealWidth' # fbRealWidth
        \/ fbRealHeight' # fbRealHeight) => fbMutex = "proc"]_vars

ProcStep == pc' # pc

\* C4: a request whose size reaches the platform maximum fails with EPROTO
\* and FALSE; the buffer, the published dimensions, the heap and the lock
\* stay as they were and no size-changed event is delivered, neither by the
\* check nor on the way back to the caller.
C4_TooLargeLeavesStateUnchanged ==
    [][/\ (pc = "m_size" /\ ProcStep /\ AllocSize(width, height) >= SizeMax) =>
              /\ pc' = "m_false"
              /\ errno' = EPROTO
              /\ UNCHANGED <<heap, frameBuffer, fbRealWidth, fbRealHeight,
                             fbMutex, lastSizeEvent>>
       /\ (pc = "m_false" /\ ProcStep) =>
              /\ pc' = "p_ret"
              /\ decodeOk' = FALSE
              /\ UNCHANGED <<heap, frameBuffer, fbRealWidth, fbRealHeight,
                             fbMutex, lastSizeEvent, errno>>]_vars

\* C4 witness: a 2 x 2 request was refused while a 1 x 1 buffer is
\* published.
C4_Witness ==
    /\ pc = "m_false"
    /\ errno = EPROTO
    /\ AllocSize(width, height) >= SizeMax
    /\ frameBuffer # 0
    /\ heap[frameBuffer].live
    /\ <<fbRealWidth, fbRealHeight>> = <<1, 1>>
    /\ lastSizeEvent = <<1, 1>>

\* C5: once an allocation inside the callback has failed, and until the next
\* reallocation publishes, the session has no buffer and 0 x 0 dimensions,
\* no block of the heap is live, a reader inside its locked section has read
\* a null pointer, and the callback reports ENOMEM.
C5_AllocFailurePublishesZeroSize ==
    (lastRealloc = "enomem" /\ pc # "m_publish") =>
        /\ frameBuffer = 0
        /\ fbRealWidth = 0
        /\ fbRealHeight = 0
        /\ \A i \in DOMAIN heap : ~heap[i].live
        /\ \A r \in Readers : rpc[r] # "r_upload" /\ rbuf[r] = 0
        /\ pc = "m_false" => errno = ENOMEM

\* C5 witness: the allocation for a non-empty size failed after a buffer had
\* been published, and a reader that took the lock afterwards found no
\* buffer.
C5_Witness ==
    /\ lastRealloc = "enomem"
    /\ pc = "m_false"
    /\ errno = ENOMEM
    /\ width > 0
    /\ height > 0
    /\ Len(heap) = 1
    /\ \E r \in Readers : rpc[r] = "r_unlock" /\ rbuf[r] = 0

\* C6: the size-changed event is delivered only when the callback holds a
\* freshly published buffer, and carries the published width and height;
\* whenever update-finished is delivered for a session that has a buffer,
\* the last size-changed event carried the published dimensions.
C6_SizeChangedBeforeUpdateFinished ==
    [][/\ (pc = "m_notify" /\ ProcStep) =>
              /\ frameBuffer # 0
              /\ heap[frameBuffer].live
              /\ lastRealloc = "ok"
              /\ lastSizeEvent' = <<fbRealWidth, fbRealHeight>>
              /\ lastSizeEvent' = <<width, height>>
       /\ lastSizeEvent' # lastSizeEvent => pc = "m_notify"
       /\ (pc = "f_notify" /\ ProcStep /\ frameBuffer # 0) =>
              lastSizeEvent = <<fbRealWidth, fbRealHeight>>]_vars

\* C6 witness: update-finished is about to be delivered after two
\* reallocations, the second one to a different size.
C6_Witness ==
    /\ pc = "f_notify"
    /\ frameBuffer = 2
    /\ lastSizeEvent = <<heap[2].w, heap[2].h>>
    /\ <<heap[1].w, heap[1].h>> # <<heap[2].w, heap[2].h>>

\* A call of nativeProcessServerMessage has returned.
Returned == pc = "idle" /\ result # "none"

\* C7: a call runs one decode round when, and only when, its wait reported
\* server data; after a timeout or an interrupt it decodes nothing.
C7_DecodeIffData ==
    /\ pc \in {"h_read", "engine", "f_notify"} => waitWhy = "data"
    /\ Returned => decodeRounds = (IF waitWhy = "data" THEN 1 ELSE 0)

C10_WakeDrainsPipe ==
    [][(pc = "p_wait" /\ ProcStep /\ waitWhy' = "interrupted") =>
           /\ signalled
           /\ pipeBytes > 0
           /\ pipeBytes' = 0
           /\ ~signalled'
           /\ ~Interrupted']_vars

\* C10 witness: one wake has consumed two signals and a later wait, started
\* with no new signal, has ended by its timeout.
C10_Witness ==
    /\ pc = "p_test"
    /\ waitWhy = "timeout"
    /\ lastDrain = 2
    /\ pipeBytes = 0
    /\ ~signalled

\* The cursor newCursor returns when both allocations succeed.
DefaultCursor == newCursor(TRUE, TRUE)

\* The buffer of a cursor agrees with its width and height.
CursorWellFormed(c) ==
    /\ c.alloc
    /\ c.buffer.present
    /\ Len(Pixels(c.buffer)) = c.width * c.height

\* C13: an update whose allocation fails leaves the cursor as it was, same
\* buffer, width, height and hotspot, and never without a buffer or with
\* dimensions that disagree with the buffer.
C13_FailedUpdateKeepsCursor ==
    [][(pc = "c_update" /\ ProcStep /\ lastUpdate' = "enomem") =>
           /\ cursor' = cursor
           /\ CursorWellFormed(cursor')]_vars

\* C14: from creation on the cursor is present, with a buffer; until the
\* first update it is the default cursor, 10 x 16 with hotspot (1,1).
C14_CursorAlwaysPresent ==
    /\ cursor.alloc
    /\ cursor.buffer.present
    /\ lastUpdate = "none" =>
          /\ cursor = DefaultCursor
          /\ <<cursor.width, cursor.height>> = <<10, 16>>
          /\ <<cursor.xHot, cursor.yHot>> = <<1, 1>>

\* C15: after an update whose allocation succeeded, every pixel has alpha
\* 0xFF where its mask byte is nonzero and 0x00 elsewhere, the three colour
\* bytes of the source, and the cursor has the width, height and hotspot of
\* the call; a mask of ones gives alpha 0xFF throughout, a mask of zeros
\* alpha 0 throughout.
C15_AlphaFromMask ==
    (lastUpdate = "ok" /\ pc # "c_update") =>
        LET n == shape.width * shape.height
            px == Pixels(cursor.buffer)
        IN  /\ cursor.buffer.present
            /\ Len(px) = n
            /\ \A i \in 1 .. n :
                  /\ shape.mask[i] # 0 => px[i][4] = 255
                  /\ shape.mask[i] = 0 => px[i][4] = 0
                  /\ <<px[i][1], px[i][2], px[i][3]>> =
                        <<shape.buffer[i][1], shape.buffer[i][2], shape.buffer[i][3]>>
            /\ <<cursor.width, cursor.height>> = <<shape.width, shape.height>>
            /\ <<cursor.xHot, cursor.yHot>> = <<shape.xHot, shape.yHot>>
            /\ (\A i \in 1 .. n : shape.mask[i] = 1) =>
                   \A i \in 1 .. n : px[i][4] = 255
            /\ (\A i \in 1 .. n : shape.mask[i] = 0) =>
                   \A i \in 1 .. n : px[i][4] = 0

\* C15 witness: a 2 x 2 shape with a mixed mask was installed; a masked
\* pixel whose source alpha was 0 is opaque and an unmasked one whose source
\* alpha was 255 is transparent.
C15_Witness ==
    /\ lastUpdate = "ok"
    /\ pc = "engine"
    /\ <<cursor.width, cursor.height>> = <<2, 2>>
    /\ <<cursor.xHot, cursor.yHot>> = <<1, 1>>
    /\ \E i \in 1 .. 4 :
          /\ shape.mask[i] = 1
          /\ shape.buffer[i][4] = 0
          /\ Pixels(cursor.buffer)[i] = <<1, 2, 3, 255>>
    /\ \E i \in 1 .. 4 :
          /\ shape.mask[i] = 0
          /\ shape.buffer[i][4] = 255
          /\ Pixels(cursor.buffer)[i] = <<250, 128, 7, 0>>

\* C16: once connect has been called, the server port is the port plus 5900
\* for every port below 100 and the port itself for every port of 100 or
\* more.
C16_PortOffsetRule ==
    state \in {"Connecting", "Failed"} =>
        /\ port < 100 => serverPort = port + 5900
        /\ port >= 100 => serverPort = port
        /\ port = 1 => serverPort = 5901
        /\ port = 5950 => serverPort = 5950

\* C16 witness: a connect with port 100, the first port taken verbatim.
C16_Witness ==
    /\ state = "Connecting"
    /\ port = 100
    /\ serverPort = 100

\* C17: a call of the credential callback that returns gives the engine a
\* credential exactly when the kind asked for is user/password and the
\* listener returned one, and then the listener's username and password; for
\* any other kind it returns none and the listener is not consulted; without
\* a credential the engine's authentication fails, and with it the connect.
C17_CredentialFromListener ==
    [][/\ (pc = "g_cred" /\ pc' = "i_auth") =>
              /\ credential' # <<>> <=>
                    (credentialType = 2 /\ listenerAnswer' # <<>>)
              /\ credential' # <<>> => credential' = listenerAnswer'
              /\ credentialType # 2 => listenerCalls' = 0
              /\ credentialType = 2 => listenerCalls' = 1
       /\ (pc = "i_auth" /\ ProcStep /\ credential = <<>>) =>
              /\ pc' = "i_false"
              /\ errno' = EACCES
       /\ (pc = "i_false" /\ ProcStep) => state' = "Failed"]_vars

\* C17 witness: asked for a user/password credential, the callback has
\* returned the one the listener gave.
C17_Witness ==
    /\ pc = "i_auth"
    /\ credentialType = 2
    /\ listenerCalls = 1
    /\ credential = <<[username |-> "user", password |-> "secret"]>>

\* Every block of the heap has been freed exactly once, and nothing else
\* the session acquired is still held.
AllReleased ==
    /\ \A r \in Resources : held[r] = 0
    /\ \A i \in 1 .. Len(heap) : heap[i].frees = 1 /\ ~heap[i].live

\* Nothing has been released twice: no count of the ledger is negative or
\* above one, and no block of the heap has been freed more than once.
NoneReleasedTwice ==
    /\ \A r \in Resources : held[r] \in {0, 1}
    /\ \A i \in 1 .. Len(heap) : heap[i].frees <= 1

NoPipe == interruptReadFd = -1 \/ interruptWriteFd = -1

C18_InfoOnlyWhenConnected ==
    info # <<>> =>
        LET valid == \/ info[1].at = "Connected"
                     \/ info[1].at = "Failed" /\ info[1].connected
        IN  info[1].got.error <=> ~valid

\* The failure classes the claim lists: address resolution, refused, reset
\* by peer, authentication, timeout, network or host unreachable or down,
\* out of memory, protocol error, I/O error.
ListedClasses ==
    {e \in ErrnoValues : e < -1000} \cup
    {ECONNREFUSED, ECONNRESET, EACCES, ETIMEDOUT, ENETUNREACH, EHOSTUNREACH,
     ENETDOWN, EHOSTDOWN, ENOMEM, EPROTO, EIO}

\* C20 as stated: the description is non-empty for every listed class and
\* empty for every other value.
C20_Original ==
    errStr # <<>> => (errStr[1] # "" <=> errno \in ListedClasses)

\* C20 as amended: the description is non-empty for the listed classes, for
\* a connection aborted and for a network reset, and empty for every other
\* value, among them interrupted, would-block, zero and the negative values
\* down to -1000.
C20_DescribedClasses ==
    errStr # <<>> =>
        /\ errStr[1] # "" <=>
              errno \in ListedClasses \cup {ECONNABORTED, ENETRESET}
        /\ errno \in {EINTR, EAGAIN, 0} \cup (-1000 .. -1) => errStr[1] = ""

\* C20 witness: the description of a connection aborted, which is not among
\* the listed classes, has been read.
C20_Witness ==
    /\ errno = ECONNABORTED
    /\ errStr = <<"Software caused connection abort">>

\* C21: the processing thread holds the framebuffer lock only inside the
\* critical section of the reallocation (or of its listener's snapshot): not
\* when the size check has refused the request, not when the allocation is
\* tested, not when the size-changed callback is invoked and not when the
\* callback has returned.  So the lock is always released again, a listener
\* that takes a snapshot inside the size-changed callback gets the lock, and
\* so does every reader thread.
C21_LockReleasedBeforeCallback ==
    /\ [](fbMutex = "proc" =>
             pc \in {"m_free", "m_alloc", "m_publish", "m_unlock",
                     "cb_upload", "cb_unlock"})
    /\ (fbMutex = "proc") ~> (fbMutex # "proc")
    /\ (pc = "m_lock") ~> (pc \in {"m_false", "m_notify"})
    /\ (pc = "cb_lock") ~> (pc = "engine")
    /\ \A r \in Readers : (rpc[r] = "idle") ~> (fbMutex = r)

\* C21 witness: the listener holds the lock for its snapshot inside the
\* size-changed callback of a 1 x 1 framebuffer, after a reader has had it.
C21_Witness ==
    /\ pc = "cb_upload"
    /\ fbMutex = "proc"
    /\ lastSizeEvent = <<1, 1>>
    /\ frameBuffer # 0
    /\ \E r \in Readers : rpc[r] = "idle"

\* C22: the cursor a reader's snapshot reads is a whole cursor, the one
\* before an update or the one after it: the default cursor or a shape the
\* server sent, with its buffer, and with as many pixels as its width and
\* height say.
C22_ReaderSeesWholeCursor ==
    \A r \in Readers :
        csnap[r] # <<>> =>
            LET c == csnap[r][1]
            IN  /\ CursorWellFormed(c)
                /\ \/ c = DefaultCursor
                   \/ \E s \in SnapshotShapes :
                         c = updateCursor(DefaultCursor, s.buffer, s.mask,
                                          s.width, s.height, s.xHot, s.yHot,
                                          TRUE)

\* C23: whenever the session holds a framebuffer, the three views of the
\* frame size are equal: the width and height published under the lock, the
\* width and height of the last size-changed event, and the width and height
\* the connection-info getters return.  Stated for the moments that favour
\* it most, between two decode rounds of the processing thread, when no
\* reallocation is under way.
C23_ThreeViewsAgree ==
    (frameBuffer # 0 /\ cpc = "none" /\ pc = "idle") =>
        /\ lastSizeEvent = <<fbRealWidth, fbRealHeight>>
        /\ <<ClientInfo.width, ClientInfo.height>> = <<fbRealWidth, fbRealHeight>>

=============================================================================
